---------------------------- MODULE Spec2Model ----------------------------
(***************************************************************************)
(* The packet codecs of rust-socketio:                                     *)
(*   engineio/src/packet.rs  - engine.io packet, FramePayload, StrPayload  *)
(*   socketio/src/packet.rs  - socket.io packet encode / decode            *)
(* Bytes and characters are their code points (naturals); a string is a    *)
(* sequence of code points.  Every run takes one input through one codec   *)
(* in one direction and then through the opposite direction.               *)
(***************************************************************************)
EXTENDS Integers, Sequences, FiniteSets, TLC

VARIABLES layer, order, pc, input, encoded, decoded,
          chars, packets, is_bin, cnt, packet_id, str,
          payload, packet

vars == <<layer, order, pc, input, encoded, decoded,
          chars, packets, is_bin, cnt, packet_id, str, payload, packet>>

strVars == <<chars, packets, is_bin, cnt, packet_id, str>>
sockVars == <<payload, packet>>

(***************************************************************************)
(* Characters.                                                             *)
(***************************************************************************)
\* The printable ASCII characters, 0x20 .. 0x7e, in code point order (the
\* grave accent, 0x60, is spelled out).
Printable == <<" ","!","\"","#","$","%","&","'","(",")","*","+",",","-",".","/","0","1","2","3","4","5","6","7","8","9",":",";","<","=",">","?","@","A","B","C","D","E","F","G","H","I","J","K","L","M","N","O","P","Q","R","S","T","U","V","W","X","Y","Z","[","\\","]","^","_","backtick","a","b","c","d","e","f","g","h","i","j","k","l","m","n","o","p","q","r","s","t","u","v","w","x","y","z","{","|","}","~">>

\* The code point of each printable character.
OrdOf == [c \in {Printable[i] : i \in 1..Len(Printable)} |->
            31 + (CHOOSE i \in 1..Len(Printable) : Printable[i] = c)]

\* The code point of a printable character literal (b'0', ':', ...).
Ord(c) == OrdOf[c]

\* A string literal: the code points of its characters.
S(t) == [i \in 1..Len(t) |-> Ord(t[i])]

\* The one-character strings the codecs compare with and write.
SLASH == S(<<"/">>)
COMMA == S(<<",">>)
DASH == S(<<"-">>)
LBRACKET == S(<<"[">>)
RBRACKET == S(<<"]">>)
RBRACE == S(<<"}">>)

\* char::is_ascii_digit
is_ascii_digit(c) == c >= Ord("0") /\ c <= Ord("9")

\* Concatenation of a sequence of strings.
RECURSIVE Concat(_)
Concat(ss) == IF ss = <<>> THEN <<>> ELSE Head(ss) \o Concat(Tail(ss))

\* Display of an unsigned integer ("{}" of a u8, of a non-negative i32).
RECURSIVE FmtNat(_)
FmtNat(n) == IF n < 10 THEN <<Ord("0") + n>>
             ELSE Append(FmtNat(n \div 10), Ord("0") + (n % 10))

\* Display of a signed integer ("{id}" of an i32).
FmtInt(n) == IF n < 0 THEN <<Ord("-")>> \o FmtNat(0 - n) ELSE FmtNat(n)

\* The value of a run of ASCII digits read as a decimal number.
RECURSIVE DecimalValue(_)
DecimalValue(ds) == IF ds = <<>> THEN 0
                    ELSE 10 * DecimalValue(SubSeq(ds, 1, Len(ds) - 1))
                         + (ds[Len(ds)] - Ord("0"))

\* The 1-based position of the first element of s satisfying nothing in
\* particular is expressed per use; this is str::find of one character:
\* the position of the first c in s, 0 when there is none.
FindChar(s, c) == IF \E i \in 1..Len(s) : s[i] = c
                  THEN CHOOSE i \in 1..Len(s) :
                         s[i] = c /\ \A j \in 1..(i - 1) : s[j] # c
                  ELSE 0

starts_with(s, p) == Len(s) >= Len(p) /\ SubSeq(s, 1, Len(p)) = p
ends_with(s, p) == Len(s) >= Len(p) /\ SubSeq(s, Len(s) - Len(p) + 1, Len(s)) = p

(***************************************************************************)
(* Results: Ok(value), Err(error, argument), a panic (an abort of the      *)
(* thread: an arithmetic overflow in a build with overflow checks).        *)
(***************************************************************************)
NoResult == [kind |-> "none", val |-> <<>>, err |-> "", arg |-> 0]
Ok(v) == [kind |-> "ok", val |-> v, err |-> "", arg |-> 0]
Err(e, a) == [kind |-> "err", val |-> <<>>, err |-> e, arg |-> a]
Panic == [kind |-> "panic", val |-> <<>>, err |-> "", arg |-> 0]

\* Arithmetic on a u8: the exact result when it is in range; out of range
\* the build decides: a panic with overflow checks, the wrapped value
\* without.
U8Checked(overflowed, exact) ==
    IF overflowed
    THEN {[panic |-> TRUE, v |-> 0], [panic |-> FALSE, v |-> exact % 256]}
    ELSE {[panic |-> FALSE, v |-> exact]}

U8Outcomes(exact) == U8Checked(exact < 0 \/ exact > 255, exact)

(***************************************************************************)
(* engine.io: PacketId and Packet.                                         *)
(***************************************************************************)
EnginePacketIds == {"Open", "Close", "Ping", "Pong", "Message", "Upgrade", "Noop"}

\* impl From<PacketId> for u8
EnginePacketIdToU8(id) ==
    CASE id = "Open" -> 0
      [] id = "Close" -> 1
      [] id = "Ping" -> 2
      [] id = "Pong" -> 3
      [] id = "Message" -> 4
      [] id = "Upgrade" -> 5
      [] id = "Noop" -> 6

\* PacketId::to_string_byte
to_string_byte(id) == EnginePacketIdToU8(id) + Ord("0")

\* The arm of the match that accepts b, if any: the raw value or the digit.
EnginePacketIdOfByte(b) ==
    CHOOSE id \in EnginePacketIds :
        b = EnginePacketIdToU8(id) \/ b = EnginePacketIdToU8(id) + Ord("0")

\* A faulty variant: only the ASCII digits are accepted.
EnginePacketIdTryFromDigitOnly(b) ==
    IF b >= Ord("0") /\ b <= Ord("6")
    THEN Ok(EnginePacketIdOfByte(b))
    ELSE Err("InvalidPacketId", b)

\* impl TryFrom<u8> for PacketId
EnginePacketIdTryFrom(b) ==
    IF (b >= 0 /\ b <= 6) \/ (b >= Ord("0") /\ b <= Ord("6"))
    THEN Ok(EnginePacketIdOfByte(b))
    ELSE Err("InvalidPacketId", b)

\* Packet::new
EnginePacket(id, data) == [packet_id |-> id, data |-> data]

\* A faulty variant: the type is written as the raw byte 0..6.
EnginePacketToBytesRaw(p) == <<EnginePacketIdToU8(p.packet_id)>> \o p.data

\* impl From<Packet> for Bytes
EnginePacketToBytes(p) == <<to_string_byte(p.packet_id)>> \o p.data

\* A faulty variant: the payload is sliced from 0, keeping the type byte.
FramePayloadKeepFirst(bytes) ==
    IF bytes = <<>> THEN Err("IncompletePacket", 0)
    ELSE LET id == EnginePacketIdTryFrom(Head(bytes))
         IN  IF id.kind # "ok" THEN id
             ELSE Ok(EnginePacket(id.val, bytes))

\* impl TryFrom<Bytes> for FramePayload
FramePayloadTryFrom(bytes) ==
    IF bytes = <<>> THEN Err("IncompletePacket", 0)
    ELSE LET id == EnginePacketIdTryFrom(Head(bytes))
         IN  IF id.kind # "ok" THEN id
             ELSE Ok(EnginePacket(id.val, Tail(bytes)))

(***************************************************************************)
(* base64::engine::general_purpose::STANDARD.decode: the standard          *)
(* alphabet, canonical padding required, no non-zero trailing bits.        *)
(***************************************************************************)
B64Val(c) ==
    CASE c >= Ord("A") /\ c <= Ord("Z") -> c - Ord("A")
      [] c >= Ord("a") /\ c <= Ord("z") -> c - Ord("a") + 26
      [] c >= Ord("0") /\ c <= Ord("9") -> c - Ord("0") + 52
      [] c = Ord("+") -> 62
      [] c = Ord("/") -> 63
      [] OTHER -> -1

\* The three bytes of one unpadded group of four symbols.
B64Group(q) ==
    LET a == B64Val(q[1])
        b == B64Val(q[2])
        c == B64Val(q[3])
        d == B64Val(q[4])
    IN  <<a * 4 + (b \div 16), (b % 16) * 16 + (c \div 4), (c % 4) * 64 + d>>

\* The bytes of the last group, which may be padded; <<-1>> when invalid.
B64LastGroup(q) ==
    LET a == B64Val(q[1])
        b == B64Val(q[2])
        c == B64Val(q[3])
        d == B64Val(q[4])
        pad == Ord("=")
    IN  IF a < 0 \/ b < 0 THEN <<-1>>
        ELSE IF q[3] = pad /\ q[4] = pad
             THEN IF b % 16 = 0 THEN <<a * 4 + (b \div 16)>> ELSE <<-1>>
        ELSE IF c < 0 THEN <<-1>>
        ELSE IF q[4] = pad
             THEN IF c % 4 = 0
                  THEN <<a * 4 + (b \div 16), (b % 16) * 16 + (c \div 4)>>
                  ELSE <<-1>>
        ELSE IF d < 0 THEN <<-1>>
        ELSE B64Group(q)

RECURSIVE B64Bytes(_)
B64Bytes(s) ==
    IF Len(s) = 4 THEN B64LastGroup(s)
    ELSE LET q == SubSeq(s, 1, 4)
         IN  IF \E i \in 1..4 : B64Val(q[i]) < 0 THEN <<-1>>
             ELSE LET rest == B64Bytes(SubSeq(s, 5, Len(s)))
                  IN  IF rest = <<-1>> THEN <<-1>> ELSE B64Group(q) \o rest

B64Decode(s) ==
    IF s = <<>> THEN Ok(<<>>)
    ELSE IF Len(s) % 4 # 0 THEN Err("Base64", 0)
    ELSE LET bs == B64Bytes(s)
         IN  IF bs = <<-1>> THEN Err("Base64", 0) ELSE Ok(bs)

(***************************************************************************)
(* engine.io: StrPayload decode, the steps of its loop.                    *)
(***************************************************************************)
\* cnt += cnt * 10 + c - '0', evaluated left to right on the u8 the only
\* PacketId::try_from (of a u8) fixes for c - '0'.
LenAccumulate(n, c) ==
    LET a == n * 10
        b == a + c
        d == b - Ord("0")
        e == n + d
    IN  U8Checked(a > 255 \/ b > 255 \/ e > 255, e)

\* The data of the packet pushed: the base64 decoding of str when is_bin is
\* set, str itself otherwise.
PacketData(bin, text) == IF bin THEN B64Decode(text) ELSE Ok(text)

(***************************************************************************)
(* engine.io: StrPayload encode.  The source's body is a TODO; this is     *)
(* the text format of the design: per packet <count>:<type digit><data>.   *)
(***************************************************************************)
StrFrame(p) ==
    LET rep == EnginePacketToBytes(p)
    IN  FmtNat(Len(rep)) \o <<Ord(":")>> \o rep

RECURSIVE StrPayloadToBytes(_)
StrPayloadToBytes(ps) ==
    IF ps = <<>> THEN <<>>
    ELSE StrFrame(Head(ps)) \o StrPayloadToBytes(Tail(ps))

(***************************************************************************)
(* serde_json::from_str::<IgnoredAny>: a JSON syntax check.  Each scanner  *)
(* takes the text and a position and gives the position after what it      *)
(* read, 0 when the text is not JSON there.                                *)
(***************************************************************************)
At(s, i) == IF i >= 1 /\ i <= Len(s) THEN s[i] ELSE -1

IsWs(c) == c = Ord(" ") \/ c = 9 \/ c = 10 \/ c = 13

IsHex(c) == \/ is_ascii_digit(c)
            \/ (c >= Ord("a") /\ c <= Ord("f"))
            \/ (c >= Ord("A") /\ c <= Ord("F"))

RECURSIVE SkipWs(_, _)
SkipWs(s, i) == IF IsWs(At(s, i)) THEN SkipWs(s, i + 1) ELSE i

RECURSIVE SkipDigits(_, _)
SkipDigits(s, i) == IF is_ascii_digit(At(s, i)) THEN SkipDigits(s, i + 1) ELSE i

JsonLiteral(s, i, lit) ==
    IF i + Len(lit) - 1 <= Len(s) /\ SubSeq(s, i, i + Len(lit) - 1) = lit
    THEN i + Len(lit) ELSE 0

\* The exponent of a number, i at the character after the e.
JsonExponent(s, i) ==
    LET j == IF At(s, i) = Ord("+") \/ At(s, i) = Ord("-") THEN i + 1 ELSE i
    IN  IF is_ascii_digit(At(s, j)) THEN SkipDigits(s, j) ELSE 0

\* The fraction and exponent of a number, i at the character after its
\* integer part.
JsonNumberTail(s, i) ==
    LET j == IF At(s, i) = Ord(".")
             THEN IF is_ascii_digit(At(s, i + 1)) THEN SkipDigits(s, i + 1) ELSE 0
             ELSE i
    IN  IF j = 0 THEN 0
        ELSE IF At(s, j) = Ord("e") \/ At(s, j) = Ord("E")
             THEN JsonExponent(s, j + 1)
             ELSE j

\* A number, i at its first digit (after the sign, if any).
JsonNumber(s, i) ==
    IF ~is_ascii_digit(At(s, i)) THEN 0
    ELSE IF At(s, i) = Ord("0")
         THEN IF is_ascii_digit(At(s, i + 1)) THEN 0 ELSE JsonNumberTail(s, i + 1)
         ELSE JsonNumberTail(s, SkipDigits(s, i))

\* A string, i at the character after its opening quote.
RECURSIVE JsonString(_, _)
JsonString(s, i) ==
    LET c == At(s, i)
    IN  IF c < 32 THEN 0
        ELSE IF c = Ord("\"") THEN i + 1
        ELSE IF c = Ord("\\")
             THEN LET e == At(s, i + 1)
                  IN  IF e \in {Ord("\""), Ord("\\"), Ord("/"), Ord("b"),
                                Ord("f"), Ord("n"), Ord("r"), Ord("t")}
                      THEN JsonString(s, i + 2)
                      ELSE IF e = Ord("u") /\ \A k \in 2..5 : IsHex(At(s, i + k))
                           THEN JsonString(s, i + 6)
                           ELSE 0
        ELSE JsonString(s, i + 1)

JSON_NULL == S(<<"n","u","l","l">>)
JSON_TRUE == S(<<"t","r","u","e">>)
JSON_FALSE == S(<<"f","a","l","s","e">>)

RECURSIVE JsonValue(_, _), JsonElements(_, _), JsonMembers(_, _)
\* A value, after optional white space.
JsonValue(s, i) ==
    LET j == SkipWs(s, i)
        c == At(s, j)
    IN  CASE c = Ord("n") -> JsonLiteral(s, j, S(<<"n","u","l","l">>))
          [] c = Ord("t") -> JsonLiteral(s, j, S(<<"t","r","u","e">>))
          [] c = Ord("f") -> JsonLiteral(s, j, S(<<"f","a","l","s","e">>))
          [] c = Ord("-") -> JsonNumber(s, j + 1)
          [] is_ascii_digit(c) -> JsonNumber(s, j)
          [] c = Ord("\"") -> JsonString(s, j + 1)
          [] c = Ord("[") ->
                LET k == SkipWs(s, j + 1)
                IN  IF At(s, k) = Ord("]") THEN k + 1 ELSE JsonElements(s, k)
          [] c = Ord("{") ->
                LET k == SkipWs(s, j + 1)
                IN  IF At(s, k) = Ord("}") THEN k + 1 ELSE JsonMembers(s, k)
          [] OTHER -> 0

\* The elements of a non-empty array up to and including its ].
JsonElements(s, i) ==
    LET v == JsonValue(s, i)
        k == SkipWs(s, v)
    IN  IF v = 0 THEN 0
        ELSE IF At(s, k) = Ord(",") THEN JsonElements(s, k + 1)
        ELSE IF At(s, k) = Ord("]") THEN k + 1
        ELSE 0

\* The members of a non-empty object up to and including its }.
JsonMembers(s, i) ==
    LET j == SkipWs(s, i)
        key == IF At(s, j) = Ord("\"") THEN JsonString(s, j + 1) ELSE 0
        col == SkipWs(s, key)
        v == IF key # 0 /\ At(s, col) = Ord(":") THEN JsonValue(s, col + 1) ELSE 0
        k == SkipWs(s, v)
    IN  IF v = 0 THEN 0
        ELSE IF At(s, k) = Ord(",") THEN JsonMembers(s, k + 1)
        ELSE IF At(s, k) = Ord("}") THEN k + 1
        ELSE 0

\* serde_json::from_str::<IgnoredAny>(payload).is_ok()
IsValidJson(s) ==
    LET e == JsonValue(s, 1)
    IN  e # 0 /\ SkipWs(s, e) > Len(s)

(***************************************************************************)
(* socket.io: PacketId and Packet.                                         *)
(***************************************************************************)
SocketPacketIds == {"Connect", "Disconnect", "Event", "Ack", "ConnectError",
                    "BinaryEvent", "BinaryAck"}

\* enum PacketId: the discriminant, packet_type as u8
SocketPacketIdToU8(id) ==
    CASE id = "Connect" -> 0
      [] id = "Disconnect" -> 1
      [] id = "Event" -> 2
      [] id = "Ack" -> 3
      [] id = "ConnectError" -> 4
      [] id = "BinaryEvent" -> 5
      [] id = "BinaryAck" -> 6

\* impl TryFrom<char> for PacketId
SocketPacketIdTryFrom(c) ==
    IF c >= Ord("0") /\ c <= Ord("6")
    THEN Ok(CHOOSE id \in SocketPacketIds : SocketPacketIdToU8(id) = c - Ord("0"))
    ELSE Err("InvalidPacketId", c)

\* Option: None and Some(v)
NoneStr == [some |-> FALSE, v |-> <<>>]
NoneInt == [some |-> FALSE, v |-> 0]
Some(x) == [some |-> TRUE, v |-> x]

\* Packet::new
SocketPacket(t, nsp, data, id, count, attachments) ==
    [packet_type |-> t, nsp |-> nsp, data |-> data, id |-> id,
     attachment_count |-> count, attachments |-> attachments]

\* impl Default for Packet
DefaultPacket == SocketPacket("Event", SLASH, NoneStr, NoneInt, 0, NoneStr)

PLACEHOLDER == S(<<"{","\"","_","p","l","a","c","e","h","o","l","d","e","r","\"",":","t","r","u","e",",","\"","n","u","m","\"",":","0","}">>)

\* {"_placeholder":true,"num":
PLACEHOLDER_HEAD == S(<<"{","\"","_","p","l","a","c","e","h","o","l","d","e","r","\"",":","t","r","u","e",",","\"","n","u","m","\"",":">>)

\* {"_placeholder":true,"num":<num>}
Placeholder(num) == PLACEHOLDER_HEAD \o FmtNat(num) \o RBRACE

(***************************************************************************)
(* socket.io: encode, impl From<&Packet> for Bytes.                        *)
(***************************************************************************)
\* The match on the packet type that emits the attachment count.
EncodesAttachmentCount(t) == t \in {"BinaryAck", "BinaryEvent"}

\* A faulty variant: the namespace is pushed before the attachment count.
EncodeHeaderNspFirst(p) ==
    <<SocketPacketIdToU8(p.packet_type) + Ord("0")>>
    \o (IF p.nsp # SLASH THEN p.nsp \o COMMA ELSE <<>>)
    \o (IF EncodesAttachmentCount(p.packet_type)
        THEN FmtNat(p.attachment_count) \o DASH ELSE <<>>)
    \o (IF p.id.some THEN FmtInt(p.id.v) ELSE <<>>)

\* The buffer before the data: type, attachment count, namespace, id.
EncodeHeader(p) ==
    <<SocketPacketIdToU8(p.packet_type) + Ord("0")>>
    \o (IF EncodesAttachmentCount(p.packet_type)
        THEN FmtNat(p.attachment_count) \o DASH ELSE <<>>)
    \o (IF p.nsp # SLASH THEN p.nsp \o COMMA ELSE <<>>)
    \o (IF p.id.some THEN FmtInt(p.id.v) ELSE <<>>)

\* The data written for one outcome of num = attachment_count - 1.
EncodeData(p, num) ==
    IF p.attachments.some
    THEN IF p.data.some
         THEN LBRACKET \o p.data.v \o COMMA \o Placeholder(num) \o RBRACKET
         ELSE LBRACKET \o Placeholder(num) \o RBRACKET
    ELSE IF p.data.some THEN p.data.v ELSE <<>>

\* The results the build can give for a packet: the text, or the abort of
\* attachment_count - 1 on a count of 0.
SocketPacketToBytes(p) ==
    IF p.attachments.some
    THEN {IF n.panic THEN Panic ELSE Ok(EncodeHeader(p) \o EncodeData(p, n.v)) :
            n \in U8Outcomes(p.attachment_count - 1)}
    ELSE {Ok(EncodeHeader(p) \o EncodeData(p, 0))}

(***************************************************************************)
(* socket.io: decode, impl TryFrom<&Bytes> for Packet: its helpers.        *)
(***************************************************************************)
\* A run of digits without its leading zeros.
RECURSIVE StripZeros(_)
StripZeros(ds) ==
    IF Len(ds) > 1 /\ Head(ds) = Ord("0") THEN StripZeros(Tail(ds)) ELSE ds

\* Whether digit run a, as long as b, is the greater number.
DigitsGreater(a, b) ==
    \E i \in 1..Len(a) : a[i] > b[i] /\ \A j \in 1..(i - 1) : a[j] = b[j]

\* str::parse::<u8>: an optional +, then digits, at most 255; -1 on error.
ParseU8(s) ==
    LET ds == IF s # <<>> /\ Head(s) = Ord("+") THEN Tail(s) ELSE s
        z == StripZeros(ds)
    IN  IF ds = <<>> \/ \E i \in 1..Len(ds) : ~is_ascii_digit(ds[i]) THEN -1
        ELSE IF Len(z) > 3 THEN -1
        ELSE IF DecimalValue(z) > 255 THEN -1
        ELSE DecimalValue(z)

\* i32::MAX in decimal
I32_MAX == S(<<"2","1","4","7","4","8","3","6","4","7">>)

\* str::parse::<i32> of a non-empty run of digits, at most 2147483647; -1
\* on overflow.
ParseI32(ds) ==
    LET z == StripZeros(ds)
        max == I32_MAX
    IN  IF Len(z) > Len(max) THEN -1
        ELSE IF Len(z) = Len(max) /\ DigitsGreater(z, max) THEN -1
        ELSE DecimalValue(z)

\* str::replace(pat, ""): every occurrence removed, left to right.
RECURSIVE replace(_, _)
replace(s, pat) ==
    IF Len(s) < Len(pat) THEN s
    ELSE IF SubSeq(s, 1, Len(pat)) = pat
         THEN replace(SubSeq(s, Len(pat) + 1, Len(s)), pat)
         ELSE <<Head(s)>> \o replace(Tail(s), pat)

\* A faulty variant: the count is read for the Event type as well.
DecodesAttachmentCountForEvent(t) == t \in {"BinaryAck", "BinaryEvent", "Event"}

\* The match on the packet type that reads the attachment count.
DecodesAttachmentCount(t) == t \in {"BinaryAck", "BinaryEvent"}

\* The index of the first character that is no ASCII digit, 0 when every
\* character is a digit (find gives None).
NonDigitIdx(s) ==
    IF \E i \in 1..Len(s) : ~is_ascii_digit(s[i])
    THEN CHOOSE i \in 1..Len(s) :
           ~is_ascii_digit(s[i]) /\ \A j \in 1..(i - 1) : is_ascii_digit(s[j])
    ELSE 0

\* The text of a binary packet's data after the brackets are stripped.
StripBrackets(s) ==
    IF starts_with(s, LBRACKET) /\ ends_with(s, RBRACKET)
    THEN SubSeq(s, 2, Len(s) - 1)
    ELSE s

\* A faulty variant: the trailing comma is not popped.
BinaryDataKeepComma(stripped) ==
    LET r == replace(stripped, PLACEHOLDER)
    IN  IF r # <<>> THEN Some(r) ELSE NoneStr

\* The data of a binary packet: placeholders removed, one trailing comma
\* popped, None when nothing is left.
BinaryData(stripped) ==
    LET r == replace(stripped, PLACEHOLDER)
        t == IF ends_with(r, COMMA) THEN SubSeq(r, 1, Len(r) - 1) ELSE r
    IN  IF t # <<>> THEN Some(t) ELSE NoneStr

(***************************************************************************)
(* engine.io: StrPayload decode, what one step of the loop does.  A step   *)
(* gives the new locals and, when the function returns in it, the result.  *)
(***************************************************************************)
StrStep(res, cs, n, bin, id) ==
    [res |-> res, chars |-> cs, cnt |-> n, is_bin |-> bin, packet_id |-> id]

\* A faulty variant: a length digit is read without being consumed.
ReadLenOutcomesNoAdvance(cs, n, bin, id) ==
    IF cs = <<>>
    THEN {StrStep(Err("IncompletePacket", 0), cs, n, bin, id)}
    ELSE LET c == Head(cs)
         IN  IF is_ascii_digit(c)
             THEN {IF r.panic THEN StrStep(Panic, cs, n, bin, id)
                   ELSE StrStep(NoResult, cs, r.v, bin, id) :
                     r \in LenAccumulate(n, c)}
             ELSE IF c = Ord(":") /\ n # 0
                  THEN {StrStep(Ok("break"), Tail(cs), n, bin, id)}
                  ELSE {StrStep(Err("IncompletePacket", 0), Tail(cs), n, bin, id)}

\* One pass of the inner loop: chars.next() and the match on it; the check
\* of cnt == 0 follows the break on ':'.
ReadLenOutcomes(cs, n, bin, id) ==
    IF cs = <<>>
    THEN {StrStep(Err("IncompletePacket", 0), cs, n, bin, id)}
    ELSE LET c == Head(cs)
         IN  IF is_ascii_digit(c)
             THEN {IF r.panic THEN StrStep(Panic, Tail(cs), n, bin, id)
                   ELSE StrStep(NoResult, Tail(cs), r.v, bin, id) :
                     r \in LenAccumulate(n, c)}
             ELSE IF c = Ord(":") /\ n # 0
                  THEN {StrStep(Ok("break"), Tail(cs), n, bin, id)}
                  ELSE {StrStep(Err("IncompletePacket", 0), Tail(cs), n, bin, id)}

\* The packet id after the 'b' marker: chars.next() - '0' on a u8.  The
\* source leaves the end of input here unhandled; it is taken as the
\* IncompletePacket every other chars.next() of the function gives.
BinaryPacketIdOutcomes(cs, n, id) ==
    IF cs = <<>>
    THEN {StrStep(Err("IncompletePacket", 0), cs, n, TRUE, id)}
    ELSE {IF d.panic THEN StrStep(Panic, Tail(cs), n, TRUE, id)
          ELSE LET t == EnginePacketIdTryFrom(d.v)
               IN  IF t.kind = "ok"
                   THEN StrStep(NoResult, Tail(cs), n, TRUE, t.val)
                   ELSE StrStep(t, Tail(cs), n, TRUE, id) :
            d \in U8Outcomes(Head(cs) - Ord("0"))}

\* let packet_id = match chars.next() { ... }
ReadPacketIdOutcomes(cs, n, bin, id) ==
    IF cs = <<>>
    THEN {StrStep(Err("IncompletePacket", 0), cs, n, bin, id)}
    ELSE LET c == Head(cs)
         IN  IF is_ascii_digit(c)
             THEN LET t == EnginePacketIdTryFrom(c - Ord("0"))
                  IN  IF t.kind = "ok"
                      THEN {StrStep(NoResult, Tail(cs), n - 1, bin, t.val)}
                      ELSE {StrStep(t, Tail(cs), n - 1, bin, id)}
             ELSE IF c = Ord("b")
                  THEN UNION {IF r.panic
                              THEN {StrStep(Panic, Tail(cs), n, bin, id)}
                              ELSE BinaryPacketIdOutcomes(Tail(cs), r.v, id) :
                                r \in U8Outcomes(n - 2)}
                  ELSE {StrStep(Err("IncompletePacket", 0), Tail(cs), n, bin, id)}

(***************************************************************************)
(* The inputs.                                                             *)
(***************************************************************************)
MaxPayloadLen == 2
MaxFrames == 2

SeqsUpTo(A, n) == UNION {[1..k -> A] : k \in 0..n}

\* Payload bytes: a raw small integer, an ASCII digit, a byte that is no
\* character.
ByteSample == {0, Ord("4"), 255}

EnginePackets ==
    {EnginePacket(id, d) : id \in EnginePacketIds,
                           d \in SeqsUpTo(ByteSample, MaxPayloadLen)}

EngineWires ==
    {<<>>} \cup {<<b>> \o d : b \in 0..255, d \in SeqsUpTo(ByteSample, MaxPayloadLen)}

\* Packets of a text payload: empty, short and nine-character data.
StrPackets ==
    {EnginePacket(id, d) :
       id \in {"Close", "Message"},
       d \in {<<>>, S(<<"a">>), S(<<"H","e","l","l","o">>),
              S(<<"a","a","a","a","a","a","a","a","a">>)}}

StrPacketSeqs == SeqsUpTo(StrPackets, MaxFrames)

\* Frames of a text payload, well-formed and not.
StrFragments ==
    { S(<<"6",":","1","H","e","l","l","o">>),
      S(<<"2",":","4","a">>),
      S(<<"1",":","4">>),
      S(<<"6",":","b","4","Q","Q","=","=">>),
      S(<<"5",":","4","Q","Q","=","=">>),
      S(<<"1",":","b","4">>),
      S(<<"1","0",":","4","a","a","a","a","a","a","a","a","a">>),
      S(<<"1","0",":","4","a","a","a","a","a","a","a","a","a","a">>),
      S(<<"1","1",":","4","a","a","a","a","a","a","a","a","a","a">>),
      S(<<"0",":">>),
      S(<<":">>),
      S(<<"3",":","4","a">>),
      S(<<"2",":","7","a">>),
      S(<<"2",":","x","a">>),
      S(<<"3",":","b","4","a">>),
      S(<<"2",":","b">>),
      S(<<"3",":","b","9","a">>) }

StrTexts == {Concat(fs) : fs \in SeqsUpTo(StrFragments, MaxFrames)}

SocketNamespaces == {SLASH, S(<<"/","a","d","m","i","n">>), S(<<"a","d","m","i","n">>)}

SocketData ==
    { NoneStr,
      Some(S(<<"[","]">>)),
      Some(S(<<"[","\"","h","e","l","l","o","\"",",","1","]">>)),
      Some(S(<<"{","\"","t","o","k","e","n","\"",":","\"","1","2","3","\"","}">>)),
      Some(S(<<"1">>)) }

SocketIds == {NoneInt, Some(0), Some(456), Some(-5)}

SocketAttachments == {NoneStr, Some(<<>>), Some(<<<<1, 2, 3>>>>)}

SocketPackets ==
    {SocketPacket(t, n, d, i, c, a) :
       t \in SocketPacketIds, n \in SocketNamespaces, d \in SocketData,
       i \in SocketIds, c \in 0..2, a \in SocketAttachments}

\* Socket frames by their parts, and some malformed ones.
SocketTexts ==
    {Concat(<<t, c, n, i, d>>) :
       t \in {S(<<"2">>), S(<<"3">>), S(<<"5">>), S(<<"6">>)},
       c \in {<<>>, S(<<"1","-">>), S(<<"0","-">>)},
       n \in {<<>>, S(<<"/","a","d","m","i","n",",">>)},
       i \in {<<>>, S(<<"4","5","6">>)},
       d \in {<<>>, S(<<"[","]">>),
              S(<<"[","\"","h","e","l","l","o","\"",",">>) \o PLACEHOLDER \o RBRACKET,
              LBRACKET \o PLACEHOLDER \o RBRACKET,
              S(<<"[","\"","h","e","l","l","o","\"",",","1","]">>),
              S(<<"x">>)}}
    \cup { <<>>, S(<<"9">>), S(<<"2","/","a","d","m","i","n">>),
           S(<<"5","x","-","[","]">>),
           S(<<"2","9","9","9","9","9","9","9","9","9","9","[","]">>),
           S(<<"0","{","\"","t","o","k","e","n","\"",":","\"","1","2","3","\"","}">>),
           S(<<"1","/","a","d","m","i","n",",">>),
           S(<<"5","1","-","/",",","[">>) \o PLACEHOLDER \o RBRACKET,
           S(<<"6","1","-","0","0","7","[">>) \o PLACEHOLDER \o RBRACKET,
           S(<<"5","1","-","[">>) \o PLACEHOLDER \o COMMA \o PLACEHOLDER \o RBRACKET }

(***************************************************************************)
(* The state machine.                                                      *)
(***************************************************************************)
Layers == {"engine", "str", "socket"}

\* The first step of a layer's decode.
DecodeStart(l) ==
    CASE l = "engine" -> "decode"
      [] l = "str" -> "len"
      [] l = "socket" -> "type"

Init ==
    /\ \/ layer = "engine" /\ order = "enc_dec" /\ input \in EnginePackets
       \/ layer = "engine" /\ order = "dec_enc" /\ input \in EngineWires
       \/ layer = "str" /\ order = "enc_dec" /\ input \in StrPacketSeqs
       \/ layer = "str" /\ order = "dec_enc" /\ input \in StrTexts
       \/ layer = "socket" /\ order = "enc_dec" /\ input \in SocketPackets
       \/ layer = "socket" /\ order = "dec_enc" /\ input \in SocketTexts
    /\ pc = IF order = "enc_dec" THEN "encode" ELSE DecodeStart(layer)
    /\ encoded = NoResult
    /\ decoded = NoResult
    /\ chars = IF layer = "str" /\ order = "dec_enc" THEN input ELSE <<>>
    /\ packets = <<>>
    /\ is_bin = FALSE
    /\ cnt = 0
    /\ packet_id = "Open"
    /\ str = <<>>
    /\ payload = IF layer = "socket" /\ order = "dec_enc" THEN input ELSE <<>>
    /\ packet = DefaultPacket

\* Where a run goes after its encode and after its decode.
AfterEncode(r) == IF order = "enc_dec" /\ r.kind = "ok" THEN DecodeStart(layer) ELSE "done"
AfterDecode(r) == IF order = "dec_enc" /\ r.kind = "ok" THEN "encode" ELSE "done"

\* What is encoded: the input, or the packet just decoded.
EncodeSource == IF order = "enc_dec" THEN input ELSE decoded.val

EngineEncode ==
    /\ layer = "engine" /\ pc = "encode"
    /\ encoded' = Ok(EnginePacketToBytes(EncodeSource))
    /\ pc' = AfterEncode(encoded')
    /\ UNCHANGED <<layer, order, input, decoded, strVars, sockVars>>

EngineDecode ==
    /\ layer = "engine" /\ pc = "decode"
    /\ decoded' = FramePayloadTryFrom(IF order = "enc_dec" THEN encoded.val ELSE input)
    /\ pc' = AfterDecode(decoded')
    /\ UNCHANGED <<layer, order, input, encoded, strVars, sockVars>>

StrEncode ==
    /\ layer = "str" /\ pc = "encode"
    /\ encoded' = Ok(StrPayloadToBytes(EncodeSource))
    /\ pc' = AfterEncode(encoded')
    /\ chars' = IF order = "enc_dec" THEN encoded'.val ELSE chars
    /\ UNCHANGED <<layer, order, input, decoded, packets, is_bin, cnt,
                   packet_id, str, sockVars>>

\* One pass of the inner loop that reads the frame length.
StrReadLen ==
    /\ layer = "str" /\ pc = "len"
    /\ \E o \in ReadLenOutcomes(chars, cnt, is_bin, packet_id) :
         /\ chars' = o.chars
         /\ cnt' = o.cnt
         /\ IF o.res.kind = "none"
            THEN pc' = "len" /\ decoded' = decoded
            ELSE IF o.res.kind = "ok"
                 THEN pc' = "packet_id" /\ decoded' = decoded
                 ELSE pc' = AfterDecode(o.res) /\ decoded' = o.res
    /\ UNCHANGED <<layer, order, input, encoded, packets, is_bin, packet_id,
                   str, sockVars>>

\* The frame's type: a digit, or 'b' and a digit.
StrReadPacketId ==
    /\ layer = "str" /\ pc = "packet_id"
    /\ \E o \in ReadPacketIdOutcomes(chars, cnt, is_bin, packet_id) :
         /\ chars' = o.chars
         /\ cnt' = o.cnt
         /\ is_bin' = o.is_bin
         /\ packet_id' = o.packet_id
         /\ IF o.res.kind = "none"
            THEN pc' = "payload" /\ decoded' = decoded
            ELSE pc' = AfterDecode(o.res) /\ decoded' = o.res
    /\ UNCHANGED <<layer, order, input, encoded, packets, str, sockVars>>

\* for _ in 0..cnt { str += chars.next().ok_or(IncompletePacket)? }
StrReadPayload ==
    /\ layer = "str" /\ pc = "payload"
    /\ IF Len(chars) < cnt
       THEN /\ chars' = <<>>
            /\ str' = chars
            /\ decoded' = Err("IncompletePacket", 0)
            /\ pc' = AfterDecode(decoded')
       ELSE /\ chars' = SubSeq(chars, cnt + 1, Len(chars))
            /\ str' = SubSeq(chars, 1, cnt)
            /\ decoded' = decoded
            /\ pc' = "push"
    /\ UNCHANGED <<layer, order, input, encoded, packets, is_bin, cnt,
                   packet_id, sockVars>>

\* packets.push(...) and the test that ends the outer loop.  A failed
\* base64 decoding, which the source does not handle, is returned as the
\* error of the function.
StrPushPacket ==
    /\ layer = "str" /\ pc = "push"
    /\ LET d == PacketData(is_bin, str)
       IN  IF d.kind # "ok"
           THEN /\ decoded' = d
                /\ pc' = AfterDecode(d)
                /\ UNCHANGED <<packets, cnt>>
           ELSE /\ packets' = Append(packets, EnginePacket(packet_id, d.val))
                /\ IF chars = <<>>
                   THEN /\ decoded' = Ok(packets')
                        /\ pc' = AfterDecode(decoded')
                        /\ cnt' = cnt
                   ELSE /\ decoded' = decoded
                        /\ pc' = "len"
                        /\ cnt' = 0
    /\ UNCHANGED <<layer, order, input, encoded, chars, is_bin, packet_id,
                   str, sockVars>>

SocketEncode ==
    /\ layer = "socket" /\ pc = "encode"
    /\ \E r \in SocketPacketToBytes(EncodeSource) :
         /\ encoded' = r
         /\ pc' = AfterEncode(r)
         /\ payload' = IF order = "enc_dec" /\ r.kind = "ok" THEN r.val ELSE payload
    /\ UNCHANGED <<layer, order, input, decoded, strVars, packet>>

\* The function returns: with an error, or with the packet.
SocketReturn(r) ==
    /\ decoded' = r
    /\ pc' = AfterDecode(r)

\* packet_type: the first character.
SocketDecodeType ==
    /\ layer = "socket" /\ pc = "type"
    /\ IF payload = <<>>
       THEN SocketReturn(Err("IncompletePacket", 0)) /\ UNCHANGED sockVars
       ELSE LET t == SocketPacketIdTryFrom(Head(payload))
            IN  IF t.kind # "ok"
                THEN SocketReturn(t) /\ UNCHANGED sockVars
                ELSE /\ packet' = [packet EXCEPT !.packet_type = t.val]
                     /\ payload' = Tail(payload)
                     /\ pc' = "attachment_count"
                     /\ decoded' = decoded
    /\ UNCHANGED <<layer, order, input, encoded, strVars>>

\* attachment_count: for the binary types, the text before the first '-'.
SocketDecodeAttachmentCount ==
    /\ layer = "socket" /\ pc = "attachment_count"
    /\ IF DecodesAttachmentCount(packet.packet_type)
       THEN LET i == FindChar(payload, Ord("-"))
                n == ParseU8(SubSeq(payload, 1, i - 1))
            IN  IF i = 0
                THEN SocketReturn(Err("IncompletePacket", 0)) /\ UNCHANGED sockVars
                ELSE /\ payload' = SubSeq(payload, i + 1, Len(payload))
                     /\ IF n < 0
                        THEN SocketReturn(Err("InvalidPacket", 0)) /\ packet' = packet
                        ELSE /\ packet' = [packet EXCEPT !.attachment_count = n]
                             /\ pc' = "nsp"
                             /\ decoded' = decoded
       ELSE pc' = "nsp" /\ decoded' = decoded /\ UNCHANGED sockVars
    /\ UNCHANGED <<layer, order, input, encoded, strVars>>

\* namespace: when the text starts with '/', the text before the first ','.
SocketDecodeNamespace ==
    /\ layer = "socket" /\ pc = "nsp"
    /\ IF starts_with(payload, SLASH)
       THEN LET i == FindChar(payload, Ord(","))
            IN  IF i = 0
                THEN SocketReturn(Err("IncompletePacket", 0)) /\ UNCHANGED sockVars
                ELSE /\ payload' = SubSeq(payload, i + 1, Len(payload))
                     /\ packet' = [packet EXCEPT !.nsp = SubSeq(payload, 1, i - 1)]
                     /\ pc' = "id"
                     /\ decoded' = decoded
       ELSE pc' = "id" /\ decoded' = decoded /\ UNCHANGED sockVars
    /\ UNCHANGED <<layer, order, input, encoded, strVars>>

\* id: the digits before the first character that is no digit; the packet
\* is returned as it is when there is no such character.
SocketDecodeId ==
    /\ layer = "socket" /\ pc = "id"
    /\ LET i == NonDigitIdx(payload)
           n == ParseI32(SubSeq(payload, 1, i - 1))
       IN  IF i = 0
           THEN SocketReturn(Ok(packet)) /\ UNCHANGED sockVars
           ELSE IF i > 1
                THEN /\ payload' = SubSeq(payload, i, Len(payload))
                     /\ IF n < 0
                        THEN SocketReturn(Err("InvalidPacket", 0)) /\ packet' = packet
                        ELSE /\ packet' = [packet EXCEPT !.id = Some(n)]
                             /\ pc' = "data"
                             /\ decoded' = decoded
                ELSE pc' = "data" /\ decoded' = decoded /\ UNCHANGED sockVars
    /\ UNCHANGED <<layer, order, input, encoded, strVars>>

\* The match on the packet type that strips the placeholder from the data.
DecodesBinaryData(t) == t \in {"BinaryAck", "BinaryEvent"}

\* validate json, then the data.
SocketDecodeData ==
    /\ layer = "socket" /\ pc = "data"
    /\ IF ~IsValidJson(payload)
       THEN SocketReturn(Err("InvalidJson", 0)) /\ UNCHANGED sockVars
       ELSE /\ payload' = IF DecodesBinaryData(packet.packet_type)
                          THEN StripBrackets(payload) ELSE payload
            /\ packet' = [packet EXCEPT !.data =
                            IF DecodesBinaryData(packet.packet_type)
                            THEN BinaryData(payload') ELSE Some(payload)]
            /\ SocketReturn(Ok(packet'))
    /\ UNCHANGED <<layer, order, input, encoded, strVars>>

\* The caller populates the attachments of a decoded binary packet before
\* it encodes the packet again.
SocketSupplyAttachments ==
    /\ layer = "socket" /\ order = "dec_enc" /\ pc = "encode"
    /\ DecodesBinaryData(decoded.val.packet_type)
    /\ ~decoded.val.attachments.some
    /\ \E a \in SocketAttachments \ {NoneStr} :
         decoded' = Ok([decoded.val EXCEPT !.attachments = a])
    /\ UNCHANGED <<layer, order, pc, input, encoded, strVars, sockVars>>

Next ==
    \/ EngineEncode
    \/ EngineDecode
    \/ StrEncode
    \/ StrReadLen
    \/ StrReadPacketId
    \/ StrReadPayload
    \/ StrPushPacket
    \/ SocketEncode
    \/ SocketDecodeType
    \/ SocketDecodeAttachmentCount
    \/ SocketDecodeNamespace
    \/ SocketDecodeId
    \/ SocketDecodeData
    \/ SocketSupplyAttachments

Spec == Init /\ [][Next]_vars

\* The text payload codec alone.  A call runs to its return: the
\* function's next step is always taken.
StrInit == Init /\ layer = "str"

StrNext ==
    \/ StrEncode
    \/ StrReadLen
    \/ StrReadPacketId
    \/ StrReadPayload
    \/ StrPushPacket

StrSpec == StrInit /\ [][StrNext]_vars /\ WF_vars(StrNext)

(***************************************************************************)
(* The properties.                                                         *)
(***************************************************************************)
\* The text a decode was given.
DecodeText == IF order = "dec_enc" THEN input ELSE encoded.val

IsBinaryType(t) == t = "BinaryEvent" \/ t = "BinaryAck"

\* The maximal leading run of ASCII digits of a text.
RECURSIVE LeadingDigits(_)
LeadingDigits(s) ==
    IF s # <<>> /\ is_ascii_digit(Head(s))
    THEN <<Head(s)>> \o LeadingDigits(Tail(s))
    ELSE <<>>

\* Whether pat occurs in s.
Contains(s, pat) ==
    \E i \in 1..(Len(s) - Len(pat) + 1) : SubSeq(s, i, i + Len(pat) - 1) = pat

\* C1: a socket packet without attachments (attachment_count 0) decodes
\* from its own encoding to a packet equal to it in every field.
C1_SocketRoundTrip ==
    (/\ layer = "socket" /\ order = "enc_dec" /\ pc = "done"
     /\ ~input.attachments.some /\ input.attachment_count = 0)
    => decoded = Ok(input)

\* C2: the digits before ':' are read as a decimal number N, digit by
\* digit, and the first frame ends exactly N characters after its ':'.
C2_FrameLengthDecimal ==
    /\ [][(layer = "str" /\ pc = "len" /\ pc' = "len")
            => cnt' = 10 * cnt + (Head(chars) - Ord("0"))]_vars
    /\ []((layer = "str" /\ pc = "push" /\ packets = <<>>)
          => LET colon == FindChar(DecodeText, Ord(":"))
                 N == DecimalValue(SubSeq(DecodeText, 1, colon - 1))
             IN  Len(DecodeText) - Len(chars) = colon + N)

\* The character before the type digit of the frame whose payload str was
\* just read: 'b' for a binary frame, ':' for a text frame.
FrameMarker == DecodeText[Len(DecodeText) - Len(chars) - Len(str) - 1]

\* C3: the frame pushed carries the base64 decoding of its payload exactly
\* when that frame starts with 'b'; a text frame is pushed with its
\* payload as the raw text, whatever frames came before it.
C3_PerFrameBinary ==
    [][(layer = "str" /\ pc = "push")
         => IF FrameMarker = Ord("b")
            THEN Len(packets') = Len(packets) + 1
                 => packets'[Len(packets')].data = B64Decode(str).val
            ELSE /\ Len(packets') = Len(packets) + 1
                 /\ packets'[Len(packets')].data = str]_vars

\* A text payload of text frames in the canonical form: the decimal count
\* without leading zeros, ':', a type digit 0..6 and count - 1 characters.
RECURSIVE WellFormedTextPayload(_)
WellFormedTextPayload(f) ==
    LET ds == LeadingDigits(f)
        N == DecimalValue(ds)
        body == SubSeq(f, Len(ds) + 2, Len(f))
    IN  /\ ds # <<>>
        /\ Len(ds) <= 3
        /\ Head(ds) # Ord("0")
        /\ Len(f) > Len(ds) /\ f[Len(ds) + 1] = Ord(":")
        /\ Len(body) >= N
        /\ body[1] >= Ord("0") /\ body[1] <= Ord("6")
        /\ \/ Len(body) = N
           \/ WellFormedTextPayload(SubSeq(body, N + 1, Len(body)))

\* C4: decode of encode of a sequence of packets is the sequence, and
\* encode of decode of a well-formed text payload is the payload.
C4_StrPayloadRoundTrip ==
    (layer = "str" /\ pc = "done")
    => /\ (order = "enc_dec" /\ input # <<>>) => decoded = Ok(input)
       /\ (order = "dec_enc" /\ WellFormedTextPayload(input)) => encoded = Ok(input)

C7_AckIdStored ==
    [][(/\ layer = "socket" /\ pc = "id"
        /\ LeadingDigits(payload) # <<>>
        /\ ParseI32(LeadingDigits(payload)) >= 0)
         => packet'.id = Some(ParseI32(LeadingDigits(payload)))]_vars

\* Whether the decode that returned removed a placeholder from the data.
PlaceholderRemoved ==
    /\ IsBinaryType(decoded.val.packet_type)
    /\ Contains(payload, PLACEHOLDER)

\* C8, as claimed: a decoded packet has attachment_count > 0 exactly when
\* its type is binary and a placeholder was removed from its data.
C8_CountIffPlaceholder ==
    (layer = "socket" /\ decoded.kind = "ok")
    => (decoded.val.attachment_count > 0 <=> PlaceholderRemoved)

\* The text between the type digit and the first '-' of a frame.
CountPrefix(text) == SubSeq(text, 2, FindChar(text, Ord("-")) - 1)

\* C8, amended: a decoded packet of a non-binary type has attachment_count
\* 0, and one of a binary type has the count written before the first '-'
\* of its frame, whether or not a placeholder was removed.
C8_CountIsPrefix ==
    (layer = "socket" /\ decoded.kind = "ok")
    => IF IsBinaryType(decoded.val.packet_type)
       THEN decoded.val.attachment_count = ParseU8(CountPrefix(DecodeText))
       ELSE decoded.val.attachment_count = 0

\* C8: a binary frame with a count above 0 and no placeholder has been
\* decoded.
C8_Witness ==
    /\ layer = "socket" /\ order = "dec_enc" /\ decoded.kind = "ok"
    /\ IsBinaryType(decoded.val.packet_type)
    /\ decoded.val.attachment_count > 0
    /\ ~PlaceholderRemoved

\* C9: StrPayload decode ends with the packets or with one typed error,
\* never with an abort.
C9_NoPanic ==
    (layer = "str" /\ decoded.kind # "none")
    => \/ decoded.kind = "ok"
       \/ /\ decoded.kind = "err"
          /\ decoded.err \in {"IncompletePacket", "InvalidPacketId", "Base64"}

\* What is left of text after prefix, <<-1>> when text does not start
\* with prefix.
After(text, prefix) ==
    IF starts_with(text, prefix)
    THEN SubSeq(text, Len(prefix) + 1, Len(text))
    ELSE <<-1>>

\* C10: the encoded text is the type digit, the count and '-' for the
\* binary types only, the namespace and ',' unless it is "/", the ack id
\* when present, and the data segment, in this order and nothing else.
C10_EncodeLayout ==
    (layer = "socket" /\ encoded.kind = "ok")
    => LET p == EncodeSource
           r1 == After(encoded.val, <<Ord("0") + SocketPacketIdToU8(p.packet_type)>>)
           r2 == IF IsBinaryType(p.packet_type)
                 THEN After(r1, FmtNat(p.attachment_count) \o DASH)
                 ELSE r1
           r3 == IF p.nsp # SLASH THEN After(r2, p.nsp \o COMMA) ELSE r2
           r4 == IF p.id.some THEN After(r3, FmtInt(p.id.v)) ELSE r3
           head == IF p.data.some THEN p.data.v \o COMMA ELSE <<>>
           num == After(r4, LBRACKET \o head \o PLACEHOLDER_HEAD)
       IN  IF p.attachments.some
           THEN /\ LeadingDigits(num) # <<>>
                /\ num = LeadingDigits(num) \o RBRACE \o RBRACKET
           ELSE IF p.data.some THEN r4 = p.data.v
           ELSE r4 = <<>>

\* C10: a binary packet with a namespace, an ack id, data and attachments
\* has been encoded.
C10_Witness ==
    /\ layer = "socket" /\ order = "enc_dec" /\ encoded.kind = "ok"
    /\ IsBinaryType(input.packet_type)
    /\ input.nsp # SLASH
    /\ input.id.some /\ input.data.some /\ input.attachments.some

\* A binary frame with attachment count 1: the type digit t, the namespace
\* n and the ack id i as written (empty when absent), the head h before the
\* placeholder (None when the placeholder is alone in the array).
BinaryFrame(t, n, i, h) ==
    t \o S(<<"1","-">>)
    \o (IF n # <<>> THEN n \o COMMA ELSE <<>>)
    \o i
    \o LBRACKET \o (IF h.some THEN h.v \o COMMA ELSE <<>>) \o PLACEHOLDER \o RBRACKET

FrameTypes == {S(<<"5">>), S(<<"6">>)}
FrameNamespaces == {<<>>, S(<<"/","a","d","m","i","n">>), SLASH}
FrameIds == {<<>>, S(<<"4","5","6">>), S(<<"0","0","7">>)}
FrameHeads == {NoneStr, Some(S(<<"\"","h","e","l","l","o","\"">>)), Some(PLACEHOLDER)}

\* An ack id written as encode writes it: no leading zeros.
CanonicalId(i) == i = <<>> \/ (ParseI32(i) >= 0 /\ FmtInt(ParseI32(i)) = i)

\* The round trip of the frame f with head h: decode returns the head as
\* data, and the encode of the decoded packet with one attachment supplied
\* gives f.
FrameRoundTrip(f, h) ==
    (layer = "socket" /\ order = "dec_enc" /\ input = f /\ decoded.kind # "none")
    => /\ decoded.kind = "ok"
       /\ decoded.val.data = h
       /\ (pc = "done" /\ decoded.val.attachments.some
              /\ Len(decoded.val.attachments.v) = 1)
          => encoded = Ok(f)

C12_SingleMessageDigitFails ==
    (layer = "engine" /\ order = "dec_enc" /\ input = <<Ord("4")>>
       /\ decoded.kind # "none")
    => decoded = Err("IncompletePacket", 0)

\* C13 as stated: for every byte sequence engine decode accepts, the
\* encoding of the decoded packet is the sequence, byte for byte.
C13_DecodeEncodeIdentity ==
    (layer = "engine" /\ order = "dec_enc" /\ pc = "done" /\ decoded.kind = "ok")
    => encoded = Ok(input)

\* C13: the encoding of the decoded packet is the ASCII digit of the type
\* and then the rest of the input; it is the input itself exactly when the
\* input's first byte is an ASCII digit '0'..'6', and differs in the first
\* byte when that is a raw byte 0..6.
C13_AsciiDecodeEncodeIdentity ==
    (layer = "engine" /\ order = "dec_enc" /\ pc = "done" /\ decoded.kind = "ok")
    => /\ encoded = Ok(<<Ord("0") + EnginePacketIdToU8(decoded.val.packet_id)>>
                          \o Tail(input))
       /\ Head(input) \in Ord("0")..Ord("6") => encoded = Ok(input)
       /\ Head(input) \in 0..6
            => /\ encoded.val[1] = Head(input) + Ord("0")
               /\ encoded.val # input

\* C13: a Close frame with a payload has been decoded and encoded back to
\* the same bytes.
C13_Witness ==
    /\ layer = "engine" /\ order = "dec_enc" /\ pc = "done"
    /\ Len(input) > 1 /\ Head(input) = Ord("1")
    /\ decoded.kind = "ok" /\ decoded.val.packet_id = "Close"
    /\ encoded = Ok(input)

C15_NumInRange ==
    (layer = "socket" /\ encoded.kind # "none" /\ EncodeSource.attachments.some)
    => LET p == EncodeSource
       IN  /\ p.attachment_count - 1 \in 0..254
           /\ encoded = Ok(EncodeHeader(p) \o EncodeData(p, p.attachment_count - 1))

=============================================================================
